---- MODULE Spec2Model ----
(***************************************************************************)
(* Model of openassets-tapyrus: the marker output payload codec            *)
(* (src/openassets/marker_output.rs) and the Open Assets address           *)
(* (src/openassets/address.rs).                                            *)
(*                                                                         *)
(* A u64 is modelled as the set of its set bit positions, a subset of      *)
(* 0..63, so that the full 64-bit width is kept: x | y is the union,       *)
(* x & mask the intersection, x << k and x >> k move the positions and     *)
(* drop those that leave 0..63.  Bytes and lengths are naturals.           *)
(***************************************************************************)
EXTENDS Integers, Sequences, FiniteSets, TLC

\* ------------------------------------------------------------------ bounds

\* longest quantity list of an encoded payload
MaxQty == 2
\* longest metadata of an encoded payload
MaxMeta == 1
\* most chunks of raw input after the four header bytes
MaxChunks == 2
\* most bytes appended after an encoded payload
MaxTrailing == 1

\* ------------------------------------------------------- 64-bit arithmetic

U64Bits == 0..63

Pow2(i) == 2 ^ i

\* the bits of a natural below 2^31
Bits(n) == {i \in 0..30 : (n \div Pow2(i)) % 2 = 1}

\* `x as u8`: the low eight bits as a natural
ByteOf(x) ==
    LET b(i) == IF i \in x THEN Pow2(i) ELSE 0
    IN b(0) + b(1) + b(2) + b(3) + b(4) + b(5) + b(6) + b(7)

Shr(x, k) == {i - k : i \in {j \in x : j >= k}}

Shl(x, k) == {i + k : i \in x} \cap U64Bits

\* the natural value of x when it is below 2^31
RECURSIVE ToNat(_)
ToNat(x) ==
    IF x = {} THEN 0
    ELSE LET i == CHOOSE j \in x : TRUE IN Pow2(i) + ToNat(x \ {i})

Small(x) == x \subseteq 0..30

\* n < x, for a natural n and a u64 x
NatLt(n, x) == IF Small(x) THEN n < ToNat(x) ELSE TRUE

\* the w little-endian bytes of x
LEBytes(x, w) == [i \in 1..w |-> ByteOf(Shr(x, 8 * (i - 1)))]

\* the u64 read from little-endian bytes
RECURSIVE FromLE(_)
FromLE(bs) ==
    IF bs = <<>> THEN {}
    ELSE Bits(bs[1]) \cup Shl(FromLE(Tail(bs)), 8)

\* ------------------------------------------------------------ results

NoPayload == [quantities |-> <<>>, metadata |-> <<>>]

Ok(v, p) == [tag |-> "Ok", val |-> v, err |-> "", pos |-> p]
Err(e) == [tag |-> "Err", val |-> NoPayload, err |-> e, pos |-> 0]
Panic(m) == [tag |-> "Panic", val |-> NoPayload, err |-> m, pos |-> 0]

UnexpectedEof == "Io(UnexpectedEof)"
InvalidMarker == "ParseFailed(Invalid marker.)"
InvalidVersion == "ParseFailed(Invalid version.)"
NonMinimalVarInt == "NonMinimalVarInt"
OversizedVectorAllocation == "OversizedVectorAllocation"
NotConsumed == "ParseFailed(data not consumed entirely when explicitly deserializing)"

\* ------------------------------------------------------------ constants

MARKER == 20289     \* 0x4f41
VERSION == 256      \* 0x0100

\* u16::to_be on a little-endian host: the two bytes swapped
ToBe16(x) == (x % 256) * 256 + (x \div 256)

\* ------------------------------------------- consensus primitives (tapyrus)

\* u16::consensus_encode: two bytes, little-endian
EncodeU16(x) == <<x % 256, x \div 256>>

\* u8::consensus_decode from the reader d at position pos
DecodeU8(d, pos) ==
    IF pos + 1 > Len(d) THEN Err(UnexpectedEof)
    ELSE Ok(d[pos + 1], pos + 1)

\* u16::consensus_decode: two bytes, little-endian
DecodeU16(d, pos) ==
    IF pos + 2 > Len(d) THEN Err(UnexpectedEof)
    ELSE Ok(d[pos + 1] + 256 * d[pos + 2], pos + 2)

\* VarInt::consensus_encode of the u64 x
VarIntEncode(x) ==
    IF x \subseteq 0..7 /\ ByteOf(x) <= 252 THEN <<ByteOf(x)>>
    ELSE IF x \subseteq 0..15 THEN <<253>> \o LEBytes(x, 2)
    ELSE IF x \subseteq 0..31 THEN <<254>> \o LEBytes(x, 4)
    ELSE <<255>> \o LEBytes(x, 8)

\* VarInt::consensus_decode: the value is a u64; a longer form than the
\* value needs is rejected
VarIntDecode(d, pos) ==
    LET n == DecodeU8(d, pos)
        wide(w) == FromLE(SubSeq(d, n.pos + 1, n.pos + w))
    IN  IF n.tag # "Ok" THEN n
        ELSE IF n.val = 255 THEN
            IF n.pos + 8 > Len(d) THEN Err(UnexpectedEof)
            ELSE IF wide(8) \subseteq 0..31 THEN Err(NonMinimalVarInt)
            ELSE Ok(wide(8), n.pos + 8)
        ELSE IF n.val = 254 THEN
            IF n.pos + 4 > Len(d) THEN Err(UnexpectedEof)
            ELSE IF wide(4) \subseteq 0..15 THEN Err(NonMinimalVarInt)
            ELSE Ok(wide(4), n.pos + 4)
        ELSE IF n.val = 253 THEN
            IF n.pos + 2 > Len(d) THEN Err(UnexpectedEof)
            ELSE IF ToNat(wide(2)) < 253 THEN Err(NonMinimalVarInt)
            ELSE Ok(wide(2), n.pos + 2)
        ELSE Ok(Bits(n.val), n.pos)

\* the largest length Vec<u8>::consensus_decode accepts
MAX_VEC_SIZE == 4000000

\* Metadata::consensus_encode: Vec<u8>, a varint length and the bytes
MetadataEncode(m) == VarIntEncode(Bits(Len(m))) \o m

\* Metadata::consensus_decode: Vec<u8>, a varint length and the bytes
MetadataDecode(d, pos) ==
    LET n == VarIntDecode(d, pos)
    IN  IF n.tag # "Ok" THEN n
        ELSE IF ~Small(n.val) \/ ToNat(n.val) > MAX_VEC_SIZE
            THEN Err(OversizedVectorAllocation)
        ELSE IF n.pos + ToNat(n.val) > Len(d) THEN Err(UnexpectedEof)
        ELSE Ok(SubSeq(d, n.pos + 1, n.pos + ToNat(n.val)), n.pos + ToNat(n.val))

\* ------------------------------------------------- Payload::consensus_encode

\* Leb128Encode without `byte |= 0x80`: no byte carries the continuation bit
RECURSIVE Leb128EncodeNoContinuation(_)
Leb128EncodeNoContinuation(value) ==
    LET low == value \cap 0..6
        rest == Shr(value, 7)
    IN  <<ByteOf(low)>>
            \o (IF rest = {} THEN <<>> ELSE Leb128EncodeNoContinuation(rest))

\* the loop of lines 28-38: the LEB128 bytes of one quantity
RECURSIVE Leb128Encode(_)
Leb128Encode(value) ==
    LET low == value \cap 0..6
        rest == Shr(value, 7)
        byte == IF rest # {} THEN low \cup {7} ELSE low
    IN  <<ByteOf(byte)>> \o (IF rest = {} THEN <<>> ELSE Leb128Encode(rest))

RECURSIVE EncodeQuantities(_)
EncodeQuantities(qs) ==
    IF qs = <<>> THEN <<>>
    ELSE Leb128Encode(Head(qs)) \o EncodeQuantities(Tail(qs))

\* consensus_encode without to_be(): marker and version in host byte order
consensus_encodeHostOrder(p) ==
    EncodeU16(MARKER)
        \o EncodeU16(VERSION)
        \o VarIntEncode(Bits(Len(p.quantities)))
        \o EncodeQuantities(p.quantities)
        \o MetadataEncode(p.metadata)

\* the bytes written to the stream; the writer is a Vec and never fails
consensus_encode(p) ==
    EncodeU16(ToBe16(MARKER))
        \o EncodeU16(ToBe16(VERSION))
        \o VarIntEncode(Bits(Len(p.quantities)))
        \o EncodeQuantities(p.quantities)
        \o MetadataEncode(p.metadata)

\* ------------------------------------------------- Payload::consensus_decode

\* Vec::<u64>::with_capacity(count as usize) on a 64-bit target: a request
\* of count * 8 bytes above isize::MAX panics with "capacity overflow".
\* A smaller request is taken to be granted by the allocator.
WithCapacityPanics(count) == count \cap 60..63 # {}

\* the loop of lines 63-70: one quantity.  With overflow checks (a debug
\* build) a shift by 64 or more panics; without them (a release build) the
\* shift amount is taken modulo 64.
RECURSIVE Leb128Decode(_, _, _, _, _)
Leb128Decode(d, pos, value, offset, checks) ==
    LET b == DecodeU8(d, pos)
    IN  IF b.tag # "Ok" THEN b
        ELSE IF checks /\ offset >= 64
            THEN Panic("attempt to shift left with overflow")
        ELSE LET v == value \cup Shl(Bits(b.val) \cap 0..6, offset % 64)
             IN  IF 7 \notin Bits(b.val) THEN Ok(v, b.pos)
                 ELSE Leb128Decode(d, b.pos, v, offset + 7, checks)

\* the loop of lines 60-72: count quantities
RECURSIVE DecodeQuantities(_, _, _, _, _)
DecodeQuantities(d, pos, count, acc, checks) ==
    IF ~NatLt(Len(acc), count) THEN Ok(acc, pos)
    ELSE LET q == Leb128Decode(d, pos, {}, 0, checks)
         IN  IF q.tag # "Ok" THEN q
             ELSE DecodeQuantities(d, q.pos, count, Append(acc, q.val), checks)

\* Payload::consensus_decode on a reader over the bytes d; pos of the
\* result is the number of bytes the reader has given out
consensus_decode(d, checks) ==
    LET marker == DecodeU16(d, 0)
        version == DecodeU16(d, marker.pos)
        count == VarIntDecode(d, version.pos)
        qs == DecodeQuantities(d, count.pos, count.val, <<>>, checks)
        md == MetadataDecode(d, qs.pos)
    IN  IF marker.tag # "Ok" THEN Err(marker.err)
        ELSE IF marker.val # ToBe16(MARKER) THEN Err(InvalidMarker)
        ELSE IF version.tag # "Ok" THEN Err(version.err)
        ELSE IF version.val # ToBe16(VERSION) THEN Err(InvalidVersion)
        ELSE IF count.tag # "Ok" THEN Err(count.err)
        ELSE IF WithCapacityPanics(count.val) THEN Panic("capacity overflow")
        ELSE IF qs.tag # "Ok" THEN qs
        ELSE IF md.tag # "Ok" THEN Err(md.err)
        ELSE Ok([quantities |-> qs.val, metadata |-> md.val], md.pos)

\* deserialize without the check that the data was consumed entirely
deserializePartial(data, checks) == consensus_decode(data, checks)

\* tapyrus::consensus::deserialize: decode, and fail unless every byte of
\* the data was consumed
deserialize(data, checks) ==
    LET r == consensus_decode(data, checks)
    IN  IF r.tag # "Ok" THEN r
        ELSE IF r.pos = Len(data) THEN r
        ELSE Err(NotConsumed)

\* ------------------------------------------------------------- TxOutExt

\* A script is the sequence of instructions its iterator yields: an opcode,
\* a data push, or an error for bytes that do not parse as an instruction.
OP_RETURN == 106
OP_PUSHNUM_NEG1 == 79
OP_DUP == 118

Op(c) == [kind |-> "Op", code |-> c, data |-> <<>>]
PushBytes(bs) == [kind |-> "PushBytes", code |-> 0, data |-> bs]
BadInstruction == [kind |-> "Error", code |-> 0, data |-> <<>>]

\* Script::is_op_return: the script starts with the OP_RETURN opcode
is_op_return(script) == Len(script) > 0 /\ script[1] = Op(OP_RETURN)

get_op_return_data(script) ==
    IF is_op_return(script) THEN
        IF Len(script) >= 2 THEN
            IF script[2].kind = "PushBytes" THEN script[2].data ELSE <<>>
        ELSE <<>>
    ELSE <<>>

get_oa_payload(script, checks) == deserialize(get_op_return_data(script), checks)

\* the boolean returned, or the panic of the decode it runs
is_openassets_marker(script, checks) ==
    IF is_op_return(script) THEN
        LET payload == get_oa_payload(script, checks)
        IN  IF payload.tag = "Panic" THEN payload
            ELSE Ok(payload.tag = "Ok", 0)
    ELSE Ok(FALSE, 0)

\* ------------------------------------------------------------- Address

NAMESPACE == 19     \* 0x13
PLAIN_LEN == 22
COLORED_LEN == 55
COLOR_END == 35

\* tapyrus::util::address::Payload: the variant, the color identifier (its
\* 33 serialized bytes; empty for the plain variants) and the 20-byte hash
PubkeyHash(h) == [kind |-> "PubkeyHash", color |-> <<>>, hash |-> h]
ScriptHash(h) == [kind |-> "ScriptHash", color |-> <<>>, hash |-> h]
ColoredPubkeyHash(c, h) == [kind |-> "ColoredPubkeyHash", color |-> c, hash |-> h]
ColoredScriptHash(c, h) == [kind |-> "ColoredScriptHash", color |-> c, hash |-> h]

\* Address::new
Address_new(payload, network) ==
    Ok([payload |-> payload, network |-> network], 0)

\* the payload with its color identifier dropped
Uncolored(payload) ==
    IF payload.kind = "ColoredPubkeyHash" THEN PubkeyHash(payload.hash)
    ELSE IF payload.kind = "ColoredScriptHash" THEN ScriptHash(payload.hash)
    ELSE payload

\* to_btc_addr on the production network whatever the address says
to_btc_addrProdOnly(self) ==
    Ok([network |-> "Prod", payload |-> self.payload], 0)

\* to_btc_addr that drops the color identifier
to_btc_addrStripping(self) ==
    Ok([network |-> self.network, payload |-> Uncolored(self.payload)], 0)

\* Address::to_btc_addr
to_btc_addr(self) ==
    Ok([network |-> self.network, payload |-> self.payload], 0)

\* to_oa_address that drops the color identifier
to_oa_addressStripping(self) == Address_new(Uncolored(self.payload), self.network)

\* OAAddressConverter::to_oa_address for tapyrus::Address
to_oa_address(self) == Address_new(self.payload, self.network)

HexChars ==
    <<"0", "1", "2", "3", "4", "5", "6", "7", "8", "9", "a", "b", "c", "d", "e", "f">>

\* format!("{}", color_id): two lowercase hex digits a byte
RECURSIVE ToHex(_)
ToHex(bs) ==
    IF bs = <<>> THEN <<>>
    ELSE <<HexChars[(Head(bs) \div 16) + 1], HexChars[(Head(bs) % 16) + 1]>>
            \o ToHex(Tail(bs))

HexVal(c) == CHOOSE v \in 0..15 : HexChars[v + 1] = c

\* Vec::from_hex(..).unwrap(): a byte for two digits, a panic on an odd length
RECURSIVE FromHexUnwrap(_)
FromHexUnwrap(str) ==
    IF str = <<>> THEN Ok(<<>>, 0)
    ELSE IF Len(str) = 1 THEN Panic("called Result::unwrap() on an Err value")
    ELSE LET rest == FromHexUnwrap(SubSeq(str, 3, Len(str)))
         IN  IF rest.tag # "Ok" THEN rest
             ELSE Ok(<<16 * HexVal(str[1]) + HexVal(str[2])>> \o rest.val, 0)

\* dst[lo..hi].copy_from_slice(src), lo and hi counted from 0 as in the
\* source: panics unless the two lengths are equal
CopyFromSlice(dst, lo, hi, src) ==
    IF hi - lo # Len(src)
        THEN Panic("source slice length does not match destination slice length")
    ELSE Ok([i \in 1..Len(dst) |->
                IF i > lo /\ i <= hi THEN src[i - lo] ELSE dst[i]], 0)

\* SelectorByte with the script-hash bytes of the two networks exchanged
SelectorByteSwapped(kind, network) ==
    IF kind = "PubkeyHash" THEN (IF network = "Prod" THEN 0 ELSE 111)
    ELSE IF kind = "ScriptHash" THEN (IF network = "Prod" THEN 196 ELSE 5)
    ELSE IF kind = "ColoredPubkeyHash" THEN (IF network = "Prod" THEN 1 ELSE 112)
    ELSE (IF network = "Prod" THEN 6 ELSE 197)

\* SelectorByte that ignores the network for the pubkey-hash variant
SelectorByteOneNetwork(kind, network) ==
    IF kind = "PubkeyHash" THEN 0
    ELSE IF kind = "ScriptHash" THEN (IF network = "Prod" THEN 5 ELSE 196)
    ELSE IF kind = "ColoredPubkeyHash" THEN (IF network = "Prod" THEN 1 ELSE 112)
    ELSE (IF network = "Prod" THEN 6 ELSE 197)

\* prefixed[1] of the four match arms
SelectorByte(kind, network) ==
    IF kind = "PubkeyHash" THEN (IF network = "Prod" THEN 0 ELSE 111)
    ELSE IF kind = "ScriptHash" THEN (IF network = "Prod" THEN 5 ELSE 196)
    ELSE IF kind = "ColoredPubkeyHash" THEN (IF network = "Prod" THEN 1 ELSE 112)
    ELSE (IF network = "Prod" THEN 6 ELSE 197)

\* impl Display for Address: the buffer handed to
\* base58::check_encode_slice_to_fmt, or the panic on the way to it
fmt(self) ==
    LET kind == self.payload.kind
        colored == kind \in {"ColoredPubkeyHash", "ColoredScriptHash"}
        zeroed == [i \in 1..(IF colored THEN COLORED_LEN ELSE PLAIN_LEN) |-> 0]
        tagged == [zeroed EXCEPT ![1] = NAMESPACE,
                                 ![2] = SelectorByte(kind, self.network)]
    IN  IF ~colored THEN CopyFromSlice(tagged, 2, PLAIN_LEN, self.payload.hash)
        ELSE LET color == FromHexUnwrap(ToHex(self.payload.color))
                 withColor == CopyFromSlice(tagged, 2, COLOR_END, color.val)
             IN  IF color.tag # "Ok" THEN color
                 ELSE IF withColor.tag # "Ok" THEN withColor
                 ELSE CopyFromSlice(withColor.val, COLOR_END, COLORED_LEN,
                                    self.payload.hash)

\* ------------------------------------------------------------- inputs

RECURSIVE Rep(_, _)
Rep(b, n) == IF n = 0 THEN <<>> ELSE <<b>> \o Rep(b, n - 1)

RECURSIVE SeqsUpTo(_, _)
SeqsUpTo(S, n) ==
    IF n = 0 THEN {<<>>}
    ELSE LET shorter == SeqsUpTo(S, n - 1)
         IN  shorter \cup {Append(q, x) : q \in shorter, x \in S}

RECURSIVE Flatten(_)
Flatten(ss) == IF ss = <<>> THEN <<>> ELSE Head(ss) \o Flatten(Tail(ss))

\* quantities to encode: 0, the largest one-byte and smallest two-byte
\* values, and 2^64 - 1
QtySamples == {Bits(0), Bits(127), Bits(128), U64Bits}

\* metadata bytes to encode: a text byte and a byte that is not UTF-8
MetaBytes == {65, 255}

Payloads ==
    [quantities : SeqsUpTo(QtySamples, MaxQty), metadata : SeqsUpTo(MetaBytes, MaxMeta)]

Header == <<79, 65, 1, 0>>

\* inputs that end in, or are wrong in, the marker or the version
BadHeads ==
    {<<>>, <<79>>, <<79, 65>>, <<79, 66>>, <<79, 65, 1>>, <<65, 79, 1, 0>>,
     <<79, 66, 1, 0>>, <<79, 65, 2, 0>>, <<79, 65, 0, 1>>}

\* pieces of input after the header: small counts, lengths and quantities,
\* varints that are huge, too long or cut short, a count of one with the
\* first ten bytes of a quantity padded with continuation bytes (of value
\* 0 and of value 1), and a final zero byte with an empty metadata
Chunks ==
    {<<0>>, <<1>>, <<143>>, <<253>>, <<253, 1, 0>>,
     <<254, 1, 9, 61, 0>>, <<255, 0, 0, 0, 0, 1, 0, 0, 0>>,
     <<255>> \o Rep(255, 8), <<1>> \o Rep(128, 10),
     <<1, 129>> \o Rep(128, 9), <<0, 0>>}

RawInputs ==
    BadHeads
        \cup {h \o c : h \in BadHeads, c \in Chunks}
        \cup {Header \o Flatten(cs) : cs \in SeqsUpTo(Chunks, MaxChunks)}

TrailBytes == {0}

Networks == {"Prod", "Dev"}

\* 20-byte hashes: all zero, and the hash of the colored address tests
Hash160s ==
    {Rep(0, 20),
     <<143, 85, 86, 59, 154, 25, 243, 33, 194, 17, 233, 185, 243, 140, 223, 104,
       110, 160, 120, 69>>}

\* 33-byte color identifiers: a token type byte and 32 bytes
ColorIds == {<<193>> \o Rep(0, 32), <<195>> \o Rep(255, 31) \o <<14>>}

AddressPayloads ==
    {PubkeyHash(h) : h \in Hash160s}
        \cup {ScriptHash(h) : h \in Hash160s}
        \cup {ColoredPubkeyHash(c, h) : c \in ColorIds, h \in Hash160s}
        \cup {ColoredScriptHash(c, h) : c \in ColorIds, h \in Hash160s}

\* tapyrus::Address values
BtcAddresses == [network : Networks, payload : AddressPayloads]

NoAddress == [network |-> "none", payload |-> [kind |-> "none", color |-> <<>>, hash |-> <<>>]]
NotCalled == [tag |-> "none", val |-> <<>>, err |-> "", pos |-> 0]

Scripts(data) ==
    {<<>>,
     <<Op(OP_RETURN)>>,
     <<Op(OP_RETURN), PushBytes(data)>>,
     <<Op(OP_RETURN), Op(OP_PUSHNUM_NEG1)>>,
     <<Op(OP_RETURN), Op(OP_PUSHNUM_NEG1), PushBytes(data)>>,
     <<Op(OP_RETURN), BadInstruction>>,
     <<Op(OP_DUP), PushBytes(data)>>}

\* ------------------------------------------------------------- state

VARIABLES
    wire,       \* the byte buffer at hand
    source,     \* where wire came from: raw input, or a payload encoded
    checks,     \* the build: TRUE with overflow checks (debug), FALSE without
    ret,        \* the last codec call and what it returned
    plain,      \* the tapyrus::Address at hand
    oa,         \* the Open Assets Address at hand, if any
    made,       \* how oa was made: "converted" from plain, or "constructed"
    shown,      \* what formatting oa gave
    back        \* what to_btc_addr of oa gave

codecVars == <<wire, source, checks, ret>>
addrVars == <<plain, oa, made, shown, back>>
vars == <<wire, source, checks, ret, plain, oa, made, shown, back>>

Raw == [kind |-> "raw", payload |-> NoPayload, trailing |-> 0]
NoCall == [op |-> "none", script |-> <<>>, res |-> Ok(NoPayload, 0)]

AddrIdle ==
    /\ plain = NoAddress
    /\ oa = NoAddress
    /\ made = "none"
    /\ shown = NotCalled
    /\ back = NotCalled

\* either bytes have arrived from a transaction, or a payload has been
\* built and is still to be encoded
Init ==
    /\ AddrIdle
    /\ checks \in BOOLEAN
    /\ ret = NoCall
    /\ \/ /\ wire \in RawInputs
          /\ source = Raw
       \/ /\ wire = <<>>
          /\ source \in [kind : {"payload"}, payload : Payloads, trailing : {0}]

\* serialize(&payload)
Encode ==
    /\ source.kind = "payload"
    /\ wire' = consensus_encode(source.payload)
    /\ source' = [source EXCEPT !.kind = "encoded"]
    /\ ret' = [op |-> "consensus_encode", script |-> <<>>,
               res |-> Ok(NoPayload, Len(consensus_encode(source.payload)))]
    /\ UNCHANGED <<checks, addrVars>>

\* the encoded payload sits in a longer run of bytes
AppendTrailing ==
    \E b \in TrailBytes :
        /\ source.kind = "encoded"
        /\ source.trailing < MaxTrailing
        /\ wire' = Append(wire, b)
        /\ source' = [source EXCEPT !.trailing = @ + 1]
        /\ ret' = NoCall
        /\ UNCHANGED <<checks, addrVars>>

\* Payload::consensus_decode on a reader over wire
Decode ==
    /\ source.kind # "payload"
    /\ ret' = [op |-> "consensus_decode", script |-> <<>>,
               res |-> consensus_decode(wire, checks)]
    /\ UNCHANGED <<wire, source, checks, addrVars>>

\* get_oa_payload on an output whose script may push wire
GetOaPayload ==
    \E s \in Scripts(wire) :
        /\ source.kind # "payload"
        /\ ret' = [op |-> "get_oa_payload", script |-> s,
                   res |-> get_oa_payload(s, checks)]
        /\ UNCHANGED <<wire, source, checks, addrVars>>

\* is_openassets_marker on an output whose script may push wire
IsOpenassetsMarker ==
    \E s \in Scripts(wire) :
        /\ source.kind # "payload"
        /\ ret' = [op |-> "is_openassets_marker", script |-> s,
                   res |-> is_openassets_marker(s, checks)]
        /\ UNCHANGED <<wire, source, checks, addrVars>>

Next ==
    \/ Encode
    \/ AppendTrailing
    \/ Decode
    \/ GetOaPayload
    \/ IsOpenassetsMarker

Spec == Init /\ [][Next]_vars

\* ------------------------------------------------- the address machine

CodecIdle ==
    /\ wire = <<>>
    /\ source = Raw
    /\ checks = FALSE
    /\ ret = NoCall

AddrInit ==
    /\ CodecIdle
    /\ plain \in BtcAddresses
    /\ oa = NoAddress
    /\ made = "none"
    /\ shown = NotCalled
    /\ back = NotCalled

\* plain.to_oa_address().unwrap()
ToOaAddress ==
    /\ oa' = to_oa_address(plain).val
    /\ made' = "converted"
    /\ shown' = NotCalled
    /\ back' = NotCalled
    /\ UNCHANGED <<plain, codecVars>>

\* Address::new(payload, network).unwrap()
New ==
    \E payload \in AddressPayloads, network \in Networks :
        /\ oa' = Address_new(payload, network).val
        /\ made' = "constructed"
        /\ shown' = NotCalled
        /\ back' = NotCalled
        /\ UNCHANGED <<plain, codecVars>>

\* oa.to_string()
Fmt ==
    /\ oa # NoAddress
    /\ shown' = fmt(oa)
    /\ UNCHANGED <<plain, oa, made, back, codecVars>>

\* oa.to_btc_addr()
ToBtcAddr ==
    /\ oa # NoAddress
    /\ back' = to_btc_addr(oa)
    /\ UNCHANGED <<plain, oa, made, shown, codecVars>>

AddrNext ==
    \/ ToOaAddress
    \/ New
    \/ Fmt
    \/ ToBtcAddr

AddrSpec == AddrInit /\ [][AddrNext]_vars

\* ------------------------------------------------------------- claims

MarkerPush == <<Op(OP_RETURN), PushBytes(wire)>>

Decoded == ret.op = "consensus_decode"

C2_NeverPanics == Decoded => ret.res.tag \in {"Ok", "Err"}

\* the LEB128 layout of one quantity, byte by byte: seven bits a byte from
\* the low end, the high bit on every byte but the last
Max(S) == CHOOSE m \in S : \A x \in S : x <= m
NumGroups(q) == IF q = {} THEN 1 ELSE (Max(q) \div 7) + 1
Leb128Layout(q) ==
    [i \in 1..NumGroups(q) |->
        ByteOf(Shr(q, 7 * (i - 1)) \cap 0..6) + (IF i < NumGroups(q) THEN 128 ELSE 0)]

\* the layout of a payload whose count and metadata length are below 253,
\* where the protocol varint is the single byte
PayloadLayout(p) ==
    <<79, 65, 1, 0>>
        \o <<Len(p.quantities)>>
        \o Flatten([i \in 1..Len(p.quantities) |-> Leb128Layout(p.quantities[i])])
        \o <<Len(p.metadata)>>
        \o p.metadata

\* C3: encoding never fails and writes 4f 41 01 00, the varint count, each
\* quantity in order in LEB128 (0 as the single byte 00), the varint
\* metadata length and the metadata bytes unchanged.
C3_EncodeLayout ==
    (ret.op = "consensus_encode")
        => /\ ret.res.tag = "Ok"
           /\ ret.res.pos = Len(wire)
           /\ wire = PayloadLayout(source.payload)
           /\ SubSeq(wire, 1, 4) = <<79, 65, 1, 0>>

C3_Witness ==
    /\ ret.op = "consensus_encode"
    /\ source.payload = [quantities |-> <<Bits(0), Bits(128)>>, metadata |-> <<65>>]
    /\ wire = <<79, 65, 1, 0, 2, 0, 128, 1, 1, 65>>

\* the input after the four header bytes, and the count it starts with when
\* that is a one-byte varint
HeaderOk == Len(wire) >= 4 /\ SubSeq(wire, 1, 4) = <<79, 65, 1, 0>>
VarIntWidth(first) ==
    IF first = 255 THEN 9 ELSE IF first = 254 THEN 5 ELSE IF first = 253 THEN 3 ELSE 1
CountEnd == IF Len(wire) >= 5 THEN 4 + VarIntWidth(wire[5]) ELSE 5
Terminated(bs) == Cardinality({i \in 1..Len(bs) : bs[i] < 128})

\* C4: decode checks marker, version, count, quantities, metadata length
\* and metadata body in this order, and the first failing check decides:
\* truncation, invalid marker, truncation, invalid version, truncation at
\* every later place where the input ends; an error carries no payload.
C4_RejectionInOrder ==
    Decoded =>
        LET r == ret.res
            quantityBytes == SubSeq(wire, CountEnd + 1, Len(wire))
        IN  /\ Len(wire) < 2 => r = Err(UnexpectedEof)
            /\ (Len(wire) >= 2 /\ SubSeq(wire, 1, 2) # <<79, 65>>)
                   => r = Err(InvalidMarker)
            /\ (Len(wire) \in {2, 3} /\ SubSeq(wire, 1, 2) = <<79, 65>>)
                   => r = Err(UnexpectedEof)
            /\ (Len(wire) >= 4 /\ SubSeq(wire, 1, 2) = <<79, 65>>
                    /\ SubSeq(wire, 3, 4) # <<1, 0>>)
                   => r = Err(InvalidVersion)
            \* the input ends inside the count prefix
            /\ (HeaderOk /\ Len(wire) < CountEnd)
                   => r = Err(UnexpectedEof)
            \* the input ends inside a quantity, after a continuation byte
            /\ (HeaderOk /\ Len(wire) > CountEnd
                    /\ VarIntDecode(wire, 4).tag = "Ok"
                    /\ NatLt(Terminated(quantityBytes), VarIntDecode(wire, 4).val)
                    /\ wire[Len(wire)] >= 128)
                   => r = Err(UnexpectedEof)
            \* no quantities: the input ends inside the metadata length prefix
            /\ (HeaderOk /\ Len(wire) >= 5 /\ wire[5] = 0
                    /\ (Len(wire) = 5 \/ Len(wire) < 5 + VarIntWidth(wire[6])))
                   => r = Err(UnexpectedEof)
            \* no quantities: the input ends before the declared metadata
            \* length, for a length below 253
            /\ (HeaderOk /\ Len(wire) >= 6 /\ wire[5] = 0
                    /\ wire[6] <= 252 /\ Len(wire) - 6 < wire[6])
                   => r = Err(UnexpectedEof)
            /\ r.tag # "Ok" => r.val = NoPayload
Trailing == source.kind = "encoded" /\ source.trailing >= 1

\* C5 as stated: when the data pushed after OP_RETURN is an encoded payload
\* followed by extra bytes, get_oa_payload returns the payload and
\* is_openassets_marker returns true.
C5_TrailingAccepted ==
    (Trailing /\ ret.script = MarkerPush)
        => /\ ret.op = "get_oa_payload"
               => (ret.res.tag = "Ok" /\ ret.res.val = source.payload)
           /\ ret.op = "is_openassets_marker" => ret.res.val = TRUE

\* C5 amended: Payload::consensus_decode on a reader returns the payload
\* and leaves the extra bytes unread; get_oa_payload, which deserializes
\* the whole push, returns the "data not consumed entirely" error and
\* is_openassets_marker returns false.
C5_TrailingOnlyOnReader ==
    Trailing =>
        /\ Decoded => ret.res = Ok(source.payload, Len(wire) - source.trailing)
        /\ (ret.op = "get_oa_payload" /\ ret.script = MarkerPush)
               => ret.res = Err(NotConsumed)
        /\ (ret.op = "is_openassets_marker" /\ ret.script = MarkerPush)
               => ret.res = Ok(FALSE, 0)

C5_Witness ==
    /\ Trailing
    /\ ret.op = "get_oa_payload"
    /\ ret.script = MarkerPush
    /\ source.payload.quantities = <<Bits(128)>>
    /\ ret.res = Err(NotConsumed)

\* C6: is_openassets_marker returns true exactly when the script is an
\* OP_RETURN script and the data pushed right after OP_RETURN deserializes
\* to a Payload; every other output gives false, never an error or a panic.
C6_MarkerDetection ==
    (ret.op = "is_openassets_marker")
        => /\ ret.res.tag = "Ok"
           /\ ret.res.val \in BOOLEAN
           /\ ret.res.val = TRUE
                <=> /\ Len(ret.script) >= 2
                    /\ ret.script[1] = Op(OP_RETURN)
                    /\ ret.script[2].kind = "PushBytes"
                    /\ deserialize(ret.script[2].data, checks).tag = "Ok"

Formatted == shown.tag # "none"
Converted == made = "converted"
ColoredKinds == {"ColoredPubkeyHash", "ColoredScriptHash"}

\* the selector table of the address format
Selector(network, kind) ==
    IF network = "Prod"
        THEN (CASE kind = "PubkeyHash" -> 0
                [] kind = "ScriptHash" -> 5
                [] kind = "ColoredPubkeyHash" -> 1
                [] kind = "ColoredScriptHash" -> 6)
        ELSE (CASE kind = "PubkeyHash" -> 111
                [] kind = "ScriptHash" -> 196
                [] kind = "ColoredPubkeyHash" -> 112
                [] kind = "ColoredScriptHash" -> 197)

\* C7: the buffer handed to the checksum encoder is 0x13, the selector of
\* the network and variant, then the hash (plain) or the color id followed
\* by the hash (colored): 22 bytes for plain, 55 for colored variants.
C7_AddressLayout ==
    Formatted =>
        /\ shown.tag = "Ok"
        /\ shown.val = <<19, Selector(oa.network, oa.payload.kind)>>
                           \o oa.payload.color \o oa.payload.hash
        /\ Len(shown.val) = IF oa.payload.kind \in ColoredKinds THEN 55 ELSE 22

C7_Witness ==
    /\ Formatted
    /\ oa.network = "Dev"
    /\ oa.payload.kind = "ColoredScriptHash"
    /\ shown.val[2] = 197
    /\ Len(shown.val) = 55

\* C8: for a payment address of either network and any of the four
\* variants, to_oa_address and then to_btc_addr succeed and give back an
\* address equal to it.
C8_ConversionRoundTrip ==
    (Converted /\ back.tag # "none")
        => /\ oa # NoAddress
           /\ back.tag = "Ok"
           /\ back.val = plain

C8_Witness ==
    /\ Converted
    /\ back.tag = "Ok"
    /\ plain.network = "Dev"
    /\ plain.payload.kind = "ColoredPubkeyHash"

\* C9 as stated: to_oa_address only produces the PubkeyHash and ScriptHash
\* variants.
C9_OnlyUncolored == Converted => oa.payload.kind \in {"PubkeyHash", "ScriptHash"}

\* C9 amended: to_oa_address copies network and payload verbatim, so the
\* result has the variant of its input: colored for a colored input,
\* PubkeyHash or ScriptHash only for an uncolored one.
C9_VariantPreserved ==
    Converted =>
        /\ oa.network = plain.network
        /\ oa.payload = plain.payload
        /\ oa.payload.kind \in ColoredKinds <=> plain.payload.kind \in ColoredKinds

C9_Witness ==
    /\ Converted
    /\ plain.payload.kind = "ColoredScriptHash"
    /\ oa.payload.kind = "ColoredScriptHash"
    /\ oa.payload.color # <<>>

\* C10 as stated: for a colored address to_btc_addr returns the network,
\* the hash and the hash kind without the color identifier.
C10_ColorStripped ==
    (back.tag # "none")
        => /\ back.tag = "Ok"
           /\ back.val.network = oa.network
           /\ back.val.payload = Uncolored(oa.payload)

\* C10 amended: to_btc_addr returns network and payload unchanged, the
\* color identifier of a colored payload included.
C10_PayloadUnchanged ==
    (back.tag # "none")
        => /\ back.tag = "Ok"
           /\ back.val.network = oa.network
           /\ back.val.payload = oa.payload
           /\ back.val.payload.color = oa.payload.color

C10_Witness ==
    /\ back.tag = "Ok"
    /\ made = "constructed"
    /\ oa.payload.kind = "ColoredPubkeyHash"
    /\ back.val.payload.color = oa.payload.color
    /\ Len(back.val.payload.color) = 33

\* one quantity and an empty metadata after the header: the bytes of the
\* quantity, which end at its first byte without the high bit
OneQuantity == SubSeq(wire, 6, Len(wire) - 1)
OneTerminatedQuantity ==
    /\ HeaderOk
    /\ Len(wire) >= 7
    /\ wire[5] = 1
    /\ wire[Len(wire)] = 0
    /\ OneQuantity[Len(OneQuantity)] < 128
    /\ \A i \in 1..(Len(OneQuantity) - 1) : OneQuantity[i] >= 128

\* the seven value bits of byte i (counted from 1) at their place
GroupBits(bs, i) == {7 * (i - 1) + j : j \in Bits(bs[i]) \cap 0..6}

\* sum of (b_i & 0x7f) * 2^(7i) is below 2^64, and its bits
BelowTwo64(bs) == \A i \in 1..Len(bs) : GroupBits(bs, i) \subseteq U64Bits
Leb128Value(bs) == UNION {GroupBits(bs, i) : i \in 1..Len(bs)}

\* C11: a terminated quantity encoding of any length, also above ten
\* bytes, whose value is below 2^64 decodes to exactly that value; bytes at
\* offsets of 64 and above change nothing and cause no failure.
C11_NoMaximumLength ==
    (Decoded /\ OneTerminatedQuantity /\ BelowTwo64(OneQuantity))
        => ret.res = Ok([quantities |-> <<Leb128Value(OneQuantity)>>,
                         metadata |-> <<>>], Len(wire))

\* C12: two Open Assets addresses that differ in network, variant, hash or
\* color id are formatted from different buffers: the buffer of the
\* address at hand is that of no other address.
C12_FormatInjective ==
    Formatted =>
        \A other \in BtcAddresses :
            (other.network # oa.network \/ other.payload # oa.payload)
                => fmt(Address_new(other.payload, other.network).val) # shown

C12_Witness ==
    /\ Formatted
    /\ oa.network = "Prod"
    /\ oa.payload.kind = "ColoredPubkeyHash"
    /\ shown.tag = "Ok"
    /\ shown.val[2] = 1
    /\ \E other \in BtcAddresses :
           /\ other.network = oa.network
           /\ other.payload.kind = oa.payload.kind
           /\ other.payload.hash = oa.payload.hash
           /\ other.payload.color # oa.payload.color

====
